---- MODULE Spec2Model ----
(***************************************************************************)
(* A model of src/testdrive/asciidoc.py: generation of asciidoc from JUnit *)
(* XML.  Python values are tagged records, [t |-> tag, ...]; the payload   *)
(* of every scalar is kept as its text.  Python's None is the record NONE. *)
(***************************************************************************)
EXTENDS Integers, Sequences, FiniteSets, TLC

VARIABLES
    \* indent_titles(filename, level)
    file,       \* the lines of `filename` as readlines() returns them
    orig,       \* the lines of `filename` before the call
    level,      \* len(level)
    ipc,        \* "ready" before the call, "done" after it
    \* TestDetail.from_output(output)
    output,     \* the text of <system-out>, or None
    detail,     \* what from_output returned or raised
    dpc,        \* "ready" before the call, "done" after it
    \* TestCase(elem)
    elem,       \* the <testcase> element
    built,      \* the case constructed, or what the constructor raised
    cpc,        \* "ready" before the call, "done" after it
    \* Config.case_path_testspec(case)
    config,     \* the Config
    pcase,      \* the case
    files,      \* the directories that hold a regular file testspec.adoc
    resolved,   \* what case_path_testspec returned or raised
    ppc,        \* "ready" before the call, "done" after it
    \* TestSuite(elem)
    selem,      \* the <testsuite> element
    sbuilt,     \* the suite constructed, or what the constructor raised
    spc,        \* "ready" before the call, "done" after it
    \* TestSuites
    suites,     \* the collection: its suites in insertion order
    nextUuid,   \* what uuid4() returns next
    includes,   \* the number of calls of include
    raised,     \* what the last call raised, NONE when nothing
    before,     \* the collection before the last call of include
    lastDoc,    \* the <testsuite> elements of the document included last
    \* the rendering passes
    out,        \* per pass, the lines and the exception of its last run
    prev,       \* per pass, those of the run before
    runs,       \* per pass, the number of its runs consumed to the end
    calls,      \* the number of passes started
    objdirFiles, \* the files copied to objdir, with their lines
    imageFiles, \* the files copied to objdir/pdf-assets/images
    last,       \* the last operation, and whether its consumer stopped early
    model       \* the collection as the last include left it

indentVars == <<file, orig, level, ipc>>
detailVars == <<output, detail, dpc>>
caseVars == <<elem, built, cpc>>
pathVars == <<config, pcase, files, resolved, ppc>>
suiteVars == <<selem, sbuilt, spc>>
collVars == <<suites, nextUuid, includes, raised, before, lastDoc>>
passVars == <<out, prev, runs, calls, objdirFiles, imageFiles, last, model>>

vars == <<indentVars, detailVars, caseVars, pathVars, suiteVars, collVars, passVars>>

-----------------------------------------------------------------------------
(* Bounds *)
MaxLineLen == 2
MaxLines == 3
MaxLevel == 4
MaxPlot == 2
MaxCases == 2
MaxIncludes == 2
MaxCalls == 3
PartialCases == 1

-----------------------------------------------------------------------------
(* indent_titles *)

Chars == {"=", "x"}
LineSet == UNION {[1..n -> Chars] : n \in 0..MaxLineLen}
FileSet == UNION {[1..n -> LineSet] : n \in 0..MaxLines}

RECURSIVE LeadingMarkers(_)
\* the inner loop of indent_titles: the number of leading '=' of `line`
LeadingMarkers(line) ==
    IF line = <<>> \/ Head(line) # "=" THEN 0
    ELSE 1 + LeadingMarkers(Tail(line))

\* line.startswith('=')
StartsWithMarker(line) == line # <<>> /\ Head(line) = "="

RECURSIVE FirstIndent(_, _)
\* the outer loop of indent_titles: `indent` when the loop ends
FirstIndent(content, lvl) ==
    IF content = <<>> THEN 0
    ELSE IF LeadingMarkers(Head(content)) # 0
         THEN lvl - LeadingMarkers(Head(content))
         ELSE FirstIndent(Tail(content), lvl)

\* '=' * n
Markers(n) == [i \in 1..n |-> "="]

\* a rewrite that prefixes every line
PrefixEveryLine(line, indent) == Markers(indent) \o line

\* one line of the rewritten file
PrefixLine(line, indent) ==
    IF StartsWithMarker(line) THEN Markers(indent) \o line ELSE line

\* the lines of the file after indent_titles(filename, level)
IndentTitles(content, lvl) ==
    LET indent == FirstIndent(content, lvl)
    IN  IF indent <= 0 THEN content
        ELSE [i \in 1..Len(content) |-> PrefixLine(content[i], indent)]

InitIndent ==
    /\ file \in FileSet
    /\ orig = file
    /\ level \in 0..MaxLevel
    /\ ipc = "ready"

CallIndentTitles ==
    /\ ipc = "ready"
    /\ file' = IndentTitles(file, level)
    /\ ipc' = "done"
    /\ UNCHANGED <<orig, level>>

NextIndent == CallIndentTitles

\* the indices of the lines of `content` that begin with '='
HeadingLines(content) ==
    {i \in 1..Len(content) : content[i] # <<>> /\ content[i][1] = "="}

\* the number of leading '=' of the first heading line of `content`
MinimumDepth(content) ==
    LET first == CHOOSE i \in HeadingLines(content) :
                     \A j \in HeadingLines(content) : i <= j
        ln == content[first]
    IN  CHOOSE k \in 1..Len(ln) :
            /\ \A j \in 1..k : ln[j] = "="
            /\ (k = Len(ln) \/ ln[k + 1] # "=")

\* C8: indent_titles leaves the file unchanged when it has no heading line or
\* when shift = len(level) - minimum_depth <= 0; otherwise it prefixes every
\* line beginning with '=' with exactly shift '=' characters, keeps every
\* other line as it was, and keeps the number and the order of the lines.
C8_IndentTitles ==
    ipc = "done" =>
        IF HeadingLines(orig) = {} \/ level - MinimumDepth(orig) <= 0
        THEN file = orig
        ELSE LET shift == level - MinimumDepth(orig)
             IN  /\ Len(file) = Len(orig)
                 /\ \A i \in 1..Len(orig) :
                        IF i \in HeadingLines(orig)
                        THEN /\ Len(file[i]) = Len(orig[i]) + shift
                             /\ \A j \in 1..shift : file[i][j] = "="
                             /\ \A j \in 1..Len(orig[i]) :
                                    file[i][shift + j] = orig[i][j]
                        ELSE file[i] = orig[i]

\* a file with a non-heading line, then headings of depth 1 and 2, re-leveled
\* to depth 3
C8_Witness ==
    /\ ipc = "done"
    /\ level = 3
    /\ orig = << <<"x", "=">>, <<"=", "x">>, <<"=", "=">> >>
    /\ file = << <<"x", "=">>, <<"=", "=", "=", "x">>, <<"=", "=", "=", "=">> >>

-----------------------------------------------------------------------------
(* Python and JSON values *)

NONE == [t |-> "null"]
JBool(b) == [t |-> "bool", b |-> b]
JNum(s) == [t |-> "num", v |-> s]
JStr(s) == [t |-> "str", v |-> s]
JList(items) == [t |-> "list", items |-> items]
\* a dict, as the sequence of its (key, value) pairs in insertion order
JObj(pairs) == [t |-> "obj", pairs |-> pairs]
Pair(k, val) == [k |-> k, val |-> val]

\* the text of a <system-out> element: `parsed` is what json.loads makes of
\* it, Invalid(empty) when it is no JSON document
Invalid(empty) == [t |-> "invalid", empty |-> empty]
Text(parsed) == [t |-> "text", parsed |-> parsed]

\* key in dct
HasKey(dct, key) == \E i \in 1..Len(dct.pairs) : dct.pairs[i].k = key

\* dct[key], for a key of dct
Item(dct, key) ==
    dct.pairs[CHOOSE i \in 1..Len(dct.pairs) : dct.pairs[i].k = key].val

\* dct.get(key, default)
Get(dct, key, default) == IF HasKey(dct, key) THEN Item(dct, key) ELSE default

\* bool(val)
Truthy(val) ==
    CASE val.t = "null" -> FALSE
      [] val.t = "bool" -> val.b
      [] val.t = "num" -> val.v # "0"
      [] val.t = "str" -> val.v # ""
      [] val.t = "list" -> val.items # <<>>
      [] val.t = "obj" -> val.pairs # <<>>
      [] val.t = "text" -> ~(val.parsed.t = "invalid" /\ val.parsed.empty)
      [] OTHER -> TRUE

\* results of the modelled functions: a value, None, or an exception
Return(val) == [kind |-> "return", val |-> val]
ReturnNone == [kind |-> "none"]
Raise(exc) == [kind |-> "raise", exc |-> exc, msg |-> ""]

\* json.loads(text)
JsonLoads(text) ==
    IF text.t # "text" THEN Raise("TypeError")
    ELSE IF text.parsed.t = "invalid" THEN Raise("JSONDecodeError")
    ELSE Return(text.parsed)

\* the strings of the model whose characters are iterated
CharsOf(s) ==
    CASE s = "" -> <<>>
      [] s = "p" -> <<"p">>
      [] OTHER -> <<"a", "b">>

\* iter(val), as the sequence of the values it yields
Iterate(val) ==
    CASE val.t = "list" -> Return(val.items)
      [] val.t = "str" ->
            Return([i \in 1..Len(CharsOf(val.v)) |-> JStr(CharsOf(val.v)[i])])
      [] val.t = "obj" ->
            Return([i \in 1..Len(val.pairs) |-> JStr(val.pairs[i].k)])
      [] OTHER -> Raise("TypeError")

-----------------------------------------------------------------------------
(* TestDetail *)

Image(title, path) == [title |-> title, path |-> path]
Table(title, dct) == [title |-> title, dct |-> dct]
Detail(images, tables) == [images |-> images, tables |-> tables]

\* TestDetail._image_item(item)
ImageItem(item) ==
    CASE item.t = "obj" ->
            IF HasKey(item, "path")
            THEN Return(Image(Get(item, "title", NONE), Item(item, "path")))
            ELSE Raise("KeyError")
      [] item.t = "str" -> Return(Image(NONE, item))
      [] OTHER -> ReturnNone

RECURSIVE ImageLoop(_, _)
\* the loop over obj.get('plot', ()) in from_output, from `images` on
ImageLoop(items, images) ==
    IF items = <<>> THEN Return(images)
    ELSE LET got == ImageItem(Head(items))
         IN  CASE got.kind = "raise" -> got
               \* (title, path) = None raises TypeError, which the
               \* except ValueError clause does not catch
               [] got.kind = "none" -> Raise("TypeError")
               [] OTHER -> ImageLoop(Tail(items), Append(images, got.val))

RECURSIVE JoinAsText(_)
\* a join that takes the text of every element: '\n'.join(str(i) for i in items)
JoinAsText(items) ==
    IF items = <<>> THEN Return("")
    ELSE IF Len(items) = 1 THEN Return(Head(items).v)
    ELSE Return(Head(items).v \o "\n" \o JoinAsText(Tail(items)).val)

RECURSIVE JoinLines(_)
\* '\n'.join(items)
JoinLines(items) ==
    IF items = <<>> THEN Return("")
    ELSE IF Head(items).t # "str" THEN Raise("TypeError")
    ELSE IF Len(items) = 1 THEN Return(Head(items).v)
    ELSE LET rest == JoinLines(Tail(items))
         IN  IF rest.kind = "raise" THEN rest
             ELSE Return(Head(items).v \o "\n" \o rest.val)

RECURSIVE AnalysisLoop(_, _, _)
\* the loop over dct.items() in from_output, from `tables` and `analysis` on
AnalysisLoop(pairs, tables, analysis) ==
    IF pairs = <<>>
    THEN Return(IF analysis # <<>>
                THEN <<Table("analysis", JObj(analysis))>> \o tables
                ELSE tables)
    ELSE LET key == Head(pairs).k
             val == Head(pairs).val
         IN  CASE val.t = "obj" ->
                    AnalysisLoop(Tail(pairs), Append(tables, Table(key, val)),
                                 analysis)
               [] val.t = "list" ->
                    LET joined == JoinLines(val.items)
                    IN  IF joined.kind = "raise" THEN ReturnNone
                        ELSE AnalysisLoop(Tail(pairs), tables,
                                Append(analysis, Pair(key, JStr(joined.val))))
               [] OTHER ->
                    AnalysisLoop(Tail(pairs), tables,
                                 Append(analysis, Pair(key, val)))

\* the tables of from_output
Tables(obj) ==
    LET dct == Get(obj, "analysis", NONE)
    IN  IF dct = NONE THEN Return(<<>>)
        ELSE IF dct.t # "obj" THEN ReturnNone
        ELSE AnalysisLoop(dct.pairs, <<>>, <<>>)

\* TestDetail.from_output(output)
FromOutput(text) ==
    LET loaded == JsonLoads(text)
    IN  IF loaded.kind = "raise" THEN ReturnNone
        ELSE IF loaded.val.t # "obj" THEN ReturnNone
        ELSE IF ~(HasKey(loaded.val, "result") /\ HasKey(loaded.val, "reason"))
        THEN ReturnNone
        ELSE LET obj == loaded.val
                 plot == Iterate(Get(obj, "plot", JList(<<>>)))
                 images == IF plot.kind = "raise" THEN plot
                           ELSE ImageLoop(plot.val, <<>>)
                 tables == Tables(obj)
             IN  IF images.kind = "raise" THEN images
                 ELSE IF tables.kind = "none" THEN ReturnNone
                 ELSE Return(Detail(images.val, tables.val))

-----------------------------------------------------------------------------
(* The outputs TestDetail.from_output is applied to *)

\* the items of a plot sequence
PlotItems ==
    { JStr("p"),
      JObj(<<Pair("title", JStr("t")), Pair("path", JStr("p"))>>),
      JObj(<<Pair("title", JStr("t"))>>),
      JNum("1"), NONE, JList(<<>>) }

\* the values at 'plot': sequences of items, and values that are no sequence
PlotValues ==
    {JList(items) : items \in UNION {[1..n -> PlotItems] : n \in 0..MaxPlot}}
        \cup {NONE, JNum("1"), JStr("ab"), JObj(<<Pair("p", JNum("1"))>>)}

\* the values at a key of 'analysis'
AnalysisValues ==
    { JObj(<<Pair("b", JNum("1")), Pair("a", JNum("2"))>>),
      JList(<<JStr("1"), JStr("2")>>),
      JList(<<JNum("1"), JNum("2")>>),
      JStr("s"), NONE }

AnalysisKeys == {"x", "y"}

\* the values at 'analysis': objects with distinct keys in either order, and
\* values that are no object
AnalysisObjects ==
    {JObj(<<>>)}
        \cup {JObj(<<Pair(k, v)>>) : k \in AnalysisKeys, v \in AnalysisValues}
        \cup {JObj(<<Pair(k[1], v), Pair(k[2], w)>>) :
                k \in {<<"x", "y">>, <<"y", "x">>},
                v \in AnalysisValues, w \in AnalysisValues}

AnalysisFields == AnalysisObjects \cup {NONE, JNum("1"), JList(<<>>)}

\* a field that may be missing from an object
Absent == [t |-> "absent"]
Field(k, val) == IF val = Absent THEN <<>> ELSE <<Pair(k, val)>>

\* the decoded <system-out> objects
DetailObject(result, reason, plot, analysis) ==
    JObj(Field("result", result) \o Field("reason", reason)
            \o Field("plot", plot) \o Field("analysis", analysis))

OutputSet ==
    {NONE, Text(Invalid(TRUE)), Text(Invalid(FALSE)), Text(NONE),
     Text(JNum("1")), Text(JStr("s")), Text(JList(<<>>)), Text(JBool(TRUE))}
        \cup {Text(DetailObject(result, reason, plot, analysis)) :
                result \in {Absent, JBool(TRUE)},
                reason \in {Absent, NONE},
                plot \in PlotValues \cup {Absent},
                analysis \in AnalysisFields \cup {Absent}}

InitDetail ==
    /\ output \in OutputSet
    /\ detail = ReturnNone
    /\ dpc = "ready"

CallFromOutput ==
    /\ dpc = "ready"
    /\ detail' = FromOutput(output)
    /\ dpc' = "done"
    /\ UNCHANGED output

NextDetail == CallFromOutput

-----------------------------------------------------------------------------
(* Claims about TestDetail.from_output *)

\* `output` decodes to an object with both a result and a reason key
DecodesToDetailObject ==
    /\ output.t = "text"
    /\ output.parsed.t = "obj"
    /\ \E i \in 1..Len(output.parsed.pairs) : output.parsed.pairs[i].k = "result"
    /\ \E i \in 1..Len(output.parsed.pairs) : output.parsed.pairs[i].k = "reason"

\* the value at `key` of the decoded object, Absent when it has no such key
Decoded(key) ==
    LET at == {i \in 1..Len(output.parsed.pairs) : output.parsed.pairs[i].k = key}
    IN  IF at = {} THEN Absent ELSE output.parsed.pairs[CHOOSE i \in at : TRUE].val

\* an image spec that is neither a bare string nor an object with a path
MalformedItem(item) ==
    ~ \/ item.t = "str"
      \/ item.t = "obj" /\ \E i \in 1..Len(item.pairs) : item.pairs[i].k = "path"

PlotHasMalformedItem ==
    /\ DecodesToDetailObject
    /\ Decoded("plot").t = "list"
    /\ \E i \in 1..Len(Decoded("plot").items) :
            MalformedItem(Decoded("plot").items[i])

\* C6: for a JSON object with result and reason keys whose plot sequence holds
\* an item that is neither a bare string nor an object with a path,
\* from_output returns no detail and does not raise.
C6_MalformedPlotGivesNoDetail ==
    (dpc = "done" /\ PlotHasMalformedItem) => detail.kind = "none"

\* the text of a scalar element, as str() gives it
ElementText(val) == IF val.t \in {"str", "num"} THEN val.v ELSE "None"

RECURSIVE JoinedTexts(_)
\* the texts of `items` joined by newlines
JoinedTexts(items) ==
    IF items = <<>> THEN ""
    ELSE IF Len(items) = 1 THEN ElementText(items[1])
    ELSE ElementText(items[1]) \o "\n" \o JoinedTexts(Tail(items))

\* the table list the analysis object `dct` stands for: the synthetic
\* "analysis" table of the values that are no objects first, when there is
\* such a value, then one table per object-valued key, in key order
AnalysisTablesOf(dct) ==
    LET scalars == SelectSeq(dct.pairs, LAMBDA p : p.val.t # "obj")
        objects == SelectSeq(dct.pairs, LAMBDA p : p.val.t = "obj")
        synthetic ==
            [i \in 1..Len(scalars) |->
                Pair(scalars[i].k,
                     IF scalars[i].val.t = "list"
                     THEN JStr(JoinedTexts(scalars[i].val.items))
                     ELSE scalars[i].val)]
    IN  (IF scalars = <<>> THEN <<>>
         ELSE <<Table("analysis", JObj(synthetic))>>)
            \o [i \in 1..Len(objects) |-> Table(objects[i].k, objects[i].val)]

HasAnalysisObject ==
    DecodesToDetailObject /\ Decoded("analysis").t = "obj"

\* every element of every sequence value of the analysis object is a string
SequencesHoldStrings ==
    \A i \in 1..Len(Decoded("analysis").pairs) :
        LET val == Decoded("analysis").pairs[i].val
        IN  val.t = "list" => \A j \in 1..Len(val.items) : val.items[j].t = "str"

\* the plot field is missing or a sequence of well-formed image specs
PlotWellFormed ==
    \/ Decoded("plot") = Absent
    \/ /\ Decoded("plot").t = "list"
       /\ \A i \in 1..Len(Decoded("plot").items) :
            ~MalformedItem(Decoded("plot").items[i])

\* C7 as stated: for a JSON object with result and reason keys and an
\* analysis object (here: one without a plot field), from_output yields the
\* synthetic "analysis" table first, with every sequence joined by newlines,
\* numbers included, then one table per object-valued key in key order.
C7_AnalysisTablesAsStated ==
    (dpc = "done" /\ HasAnalysisObject /\ Decoded("plot") = Absent) =>
        /\ detail.kind = "return"
        /\ detail.val.tables = AnalysisTablesOf(Decoded("analysis"))

\* C7 amended: for a JSON object with result and reason keys and an analysis
\* object, from_output yields a detail only if every element of every
\* sequence value is a string, it does yield one then when the plot field is
\* missing or well-formed, and every detail it yields has the synthetic
\* "analysis" table first (present iff some value is no object), with each
\* sequence joined by newlines and each other value as a scalar, then one
\* table per object-valued key in key order.
C7_AnalysisTables ==
    (dpc = "done" /\ HasAnalysisObject) =>
        /\ detail.kind = "return" =>
                /\ SequencesHoldStrings
                /\ detail.val.tables = AnalysisTablesOf(Decoded("analysis"))
        /\ (SequencesHoldStrings /\ PlotWellFormed) => detail.kind = "return"

\* {"result": true, "reason": null, "analysis": {"y": {"b": 1, "a": 2},
\* "x": ["1", "2"]}}: the "analysis" table with x = "1\n2", then table "y"
C7_Witness ==
    /\ dpc = "done"
    /\ output = Text(DetailObject(JBool(TRUE), NONE, Absent,
            JObj(<<Pair("y", JObj(<<Pair("b", JNum("1")), Pair("a", JNum("2"))>>)),
                   Pair("x", JList(<<JStr("1"), JStr("2")>>))>>)))
    /\ detail = Return(Detail(<<>>,
            <<Table("analysis", JObj(<<Pair("x", JStr("1\n2"))>>)),
              Table("y", JObj(<<Pair("b", JNum("1")), Pair("a", JNum("2"))>>))>>))

-----------------------------------------------------------------------------
(* TestCase *)

\* Decimal(time)
Decimal(time) == [t |-> "dec", v |-> time.v]

\* a <testcase> element conforming to the schema main() requires: the values
\* of its attributes (None when missing), its <failure>, <error> and
\* <system-out> children (Absent when missing) and its <property> elements
CaseElem(name, classname, timestamp, time, failure, error, text, properties) ==
    [name |-> name, classname |-> classname, timestamp |-> timestamp,
     time |-> time, failure |-> failure, error |-> error, text |-> text,
     properties |-> properties]

\* TestCase._result_reason_from_elem(elem)
ResultReasonFromElem(e) ==
    IF e.failure # Absent THEN <<JBool(FALSE), e.failure>>
    ELSE IF e.error # Absent THEN <<JStr("error"), e.error>>
    ELSE <<JBool(TRUE), NONE>>

\* TestCase._stdout_from_elem(elem)
StdoutFromElem(e) == IF e.text # Absent THEN e.text ELSE NONE

\* dct[key] = val
Put(dct, key, val) ==
    IF HasKey(dct, key)
    THEN JObj([i \in 1..Len(dct.pairs) |->
                IF dct.pairs[i].k = key THEN Pair(key, val) ELSE dct.pairs[i]])
    ELSE JObj(Append(dct.pairs, Pair(key, val)))

RECURSIVE PutAll(_, _)
\* the loop over properties.findall('property') in TestCase.__init__
PutAll(dct, properties) ==
    IF properties = <<>> THEN dct
    ELSE PutAll(Put(dct, Head(properties).k, Head(properties).val),
                Tail(properties))

\* dct['duration'] in _use_timing_from_stdout
DurationOf(dct) ==
    IF HasKey(dct, "duration") THEN Return(Item(dct, "duration"))
    ELSE [kind |-> "raise", exc |-> "KeyError", msg |-> "duration"]

\* TestCase._use_timing_from_stdout(): the case with its timing set
UseTimingFromStdout(case) ==
    LET loaded == JsonLoads(case.stdout)
    IN  IF loaded.kind = "raise" THEN Return(case)
        ELSE IF loaded.val.t # "obj" THEN Return(case)
        ELSE LET ts == Get(loaded.val, "timestamp", NONE)
             IN  IF ~Truthy(ts) THEN Return(case)
                 ELSE LET dur == DurationOf(loaded.val)
                      IN  IF dur.kind = "raise" THEN dur
                          ELSE Return([case EXCEPT !.timestamp = ts,
                                                   !.duration = dur.val])

\* the attributes set by TestCase.__init__, `rr` the result and the reason
CaseAttributes(e, uuid, rr) ==
    [uuid |-> uuid,
     name |-> e.name,
     suite |-> e.classname,
     timestamp |-> e.timestamp,
     duration |-> IF e.time # NONE THEN Decimal(e.time) ELSE NONE,
     result |-> rr[1],
     reason |-> rr[2],
     stdout |-> StdoutFromElem(e),
     props |-> PutAll(JObj(<<>>), e.properties)]

\* the last statement of TestCase.__init__
BackfillTiming(case) ==
    IF ~Truthy(case.timestamp) \/ case.duration = NONE
    THEN UseTimingFromStdout(case)
    ELSE Return(case)

\* TestCase(elem), with `uuid` what uuid4() returns
TestCase(e, uuid) ==
    BackfillTiming(CaseAttributes(e, uuid, ResultReasonFromElem(e)))

\* the decoded <system-out> objects with timing fields
TimingObject(timestamp, duration) ==
    JObj(Field("result", JBool(TRUE)) \o Field("reason", NONE)
            \o Field("timestamp", timestamp) \o Field("duration", duration))

TimingOutputs ==
    {Text(Invalid(TRUE)), Text(Invalid(FALSE)), Text(NONE), Text(JNum("1")),
     Text(JStr("s")), Text(JList(<<>>)), Text(JBool(TRUE))}
        \cup {Text(TimingObject(timestamp, duration)) :
                timestamp \in {Absent, NONE, JStr(""), JStr("T"), JNum("0"), JNum("7")},
                duration \in {Absent, NONE, JStr("5")}}

CaseElemSet ==
    {CaseElem(JStr("a"), JStr("s"), timestamp, time, failure, error, text, properties) :
        timestamp \in {NONE, JStr(""), JStr("T0")},
        time \in {NONE, JStr("1.5")},
        failure \in {Absent, JStr("f")},
        error \in {Absent, NONE},
        text \in TimingOutputs \cup {Absent},
        properties \in {<<>>, <<Pair("test_id", JStr("u/c")), Pair("test_id", NONE)>>}}

InitCase ==
    /\ elem \in CaseElemSet
    /\ built = ReturnNone
    /\ cpc = "ready"

CallTestCase ==
    /\ cpc = "ready"
    /\ built' = TestCase(elem, 1)
    /\ cpc' = "done"
    /\ UNCHANGED elem

NextCase == CallTestCase

\* the backfill finds no timing: <system-out> is missing, is no JSON, decodes
\* to something other than an object, or decodes to an object that lacks a
\* timestamp or a duration field
NoTimingInStdout ==
    \/ elem.text = Absent
    \/ elem.text.parsed.t # "obj"
    \/ \A i \in 1..Len(elem.text.parsed.pairs) :
            elem.text.parsed.pairs[i].k # "timestamp"
    \/ \A i \in 1..Len(elem.text.parsed.pairs) :
            elem.text.parsed.pairs[i].k # "duration"

\* C5: when the timestamp or the time attribute is missing and stdout holds no
\* timing, TestCase construction does not raise and the case keeps the
\* timestamp and the duration of the XML attributes.
C5_BackfillNeverFails ==
    (cpc = "done" /\ (elem.timestamp = NONE \/ elem.time = NONE) /\ NoTimingInStdout) =>
        /\ built.kind = "return"
        /\ built.val.timestamp = elem.timestamp
        /\ built.val.duration = (IF elem.time = NONE THEN NONE
                                 ELSE [t |-> "dec", v |-> elem.time.v])

-----------------------------------------------------------------------------
(* Config *)

\* the characters of the strings that are searched or split
Characters(s) ==
    CASE s = "" -> <<>>
      [] s = "u" -> <<"u">>
      [] s = "u/" -> <<"u", "/">>
      [] s = "u/c" -> <<"u", "/", "c">>
      [] s = "u//c" -> <<"u", "/", "/", "c">>
      [] s = "v/c" -> <<"v", "/", "c">>

\* container[key]
Subscript(container, key) ==
    CASE container.t = "obj" ->
            IF key.t \in {"list", "obj"} THEN Raise("TypeError")
            ELSE IF key.t = "str" /\ HasKey(container, key.v)
            THEN Return(Item(container, key.v))
            ELSE Raise("KeyError")
      \* a list or a string indexed by something that is no integer, and
      \* a value that is not subscriptable
      [] OTHER -> Raise("TypeError")

\* test_id.startswith(baseurl), for strings
StartsWith(s, prefix) ==
    /\ Len(Characters(prefix)) <= Len(Characters(s))
    /\ SubSeq(Characters(s), 1, Len(Characters(prefix))) = Characters(prefix)

RECURSIVE LStrip(_)
\* chars.lstrip('/')
LStrip(chars) ==
    IF chars # <<>> /\ Head(chars) = "/" THEN LStrip(Tail(chars)) ELSE chars

\* test_id.split(baseurl, maxsplit=1)[1], for a test_id that starts with baseurl
SplitAfter(s, prefix) ==
    IF prefix = "" THEN Raise("ValueError")
    ELSE Return(SubSeq(Characters(s), Len(Characters(prefix)) + 1,
                       Len(Characters(s))))

\* os.path.join(root, rel), rel not starting with '/'
PathJoin(root, rel) == [t |-> "path", root |-> root, rel |-> rel]

\* the path of case_path once test_id is known to start with baseurl
JoinedCasePath(cfg, suite, testId, baseurl) ==
    LET repositories == Subscript(cfg, JStr("repositories"))
        repository == Subscript(suite, JStr("repository"))
        root == IF repositories.kind = "raise" THEN repositories
                ELSE IF repository.kind = "raise" THEN repository
                ELSE Subscript(repositories.val, repository.val)
        rel == SplitAfter(testId.v, baseurl.v)
    IN  IF root.kind = "raise" THEN root
        ELSE IF rel.kind = "raise" THEN rel
        ELSE IF root.val.t # "str" THEN Raise("TypeError")
        ELSE Return(PathJoin(root.val.v, LStrip(rel.val)))

\* the try block of Config.case_path(case)
CasePathBody(cfg, case) ==
    LET testId == Subscript(case.props, JStr("test_id"))
        allSuites == Subscript(cfg, JStr("suites"))
        suite == IF allSuites.kind = "raise" THEN allSuites
                 ELSE Subscript(allSuites.val, case.suite)
        baseurl == IF suite.kind = "raise" THEN suite
                   ELSE Subscript(suite.val, JStr("baseurl"))
    IN  IF testId.kind = "raise" THEN testId
        ELSE IF baseurl.kind = "raise" THEN baseurl
        ELSE IF testId.val.t # "str" THEN Raise("AttributeError")
        ELSE IF baseurl.val.t # "str" THEN Raise("TypeError")
        ELSE IF StartsWith(testId.val.v, baseurl.val.v)
        THEN JoinedCasePath(cfg, suite.val, testId.val, baseurl.val)
        ELSE ReturnNone

\* except KeyError: return None, around the try block of case_path
ExceptKeyError(body) ==
    IF body.kind = "raise" /\ body.exc = "KeyError" THEN ReturnNone ELSE body

\* Config.case_path(case)
CasePath(cfg, case) == ExceptKeyError(CasePathBody(cfg, case))

\* the body of case_path_testspec once case_path has returned or raised `dir`
TestspecIn(dir, present) ==
    CASE dir.kind = "raise" ->
            IF dir.exc = "TypeError" THEN ReturnNone ELSE dir
      \* os.path.join(None, 'testspec.adoc') raises TypeError
      [] dir.kind = "none" -> ReturnNone
      [] OTHER -> IF dir.val \in present THEN Return(dir.val) ELSE ReturnNone

\* Config.case_path_testspec(case), with `present` the directories where
\* os.path.isfile finds testspec.adoc
CasePathTestspec(cfg, case, present) == TestspecIn(CasePath(cfg, case), present)

\* the entries of a test suite in the config
SuiteConfigs ==
    {NONE, JStr("u"), JList(<<>>)}
        \cup {JObj(Field("repository", repository) \o Field("baseurl", baseurl)) :
                repository \in {Absent, NONE, JStr("r"), JStr("q"), JList(<<>>)},
                baseurl \in {Absent, NONE, JNum("1"), JStr(""), JStr("u"), JStr("u/")}}

ConfigSet ==
    {JObj(Field("repositories", repositories) \o Field("suites", allSuites)) :
        repositories \in
            {Absent, NONE, JList(<<>>), JObj(<<>>),
             JObj(<<Pair("r", JStr("/data"))>>), JObj(<<Pair("r", NONE)>>)},
        allSuites \in
            {Absent, NONE, JList(<<>>), JObj(<<>>)}
                \cup {JObj(<<Pair("s", suite)>>) : suite \in SuiteConfigs}}

\* the cases looked up: their suite and their test_id property
PathCases ==
    {[TestCase(CaseElem(JStr("a"), classname, NONE, NONE, Absent, Absent, Absent,
                        properties), 1).val EXCEPT !.uuid = 1] :
        classname \in {NONE, JStr("s"), JStr("t")},
        properties \in
            {<<>>} \cup {<<Pair("test_id", testId)>> :
                            testId \in {NONE, JStr("u"), JStr("u/c"),
                                        JStr("u//c"), JStr("v/c")}}}

\* the directories that hold a regular file testspec.adoc
SpecDirs == {PathJoin("/data", <<"c">>), PathJoin("/data", <<>>)}

InitPath ==
    /\ config \in ConfigSet
    /\ pcase \in PathCases
    /\ files \in {{}, SpecDirs}
    /\ resolved = ReturnNone
    /\ ppc = "ready"

CallCasePathTestspec ==
    /\ ppc = "ready"
    /\ resolved' = CasePathTestspec(config, pcase, files)
    /\ ppc' = "done"
    /\ UNCHANGED <<config, pcase, files>>

NextPath == CallCasePathTestspec

\* the entry of the case's suite in the config, Absent when there is none
SuiteEntry ==
    LET allSuites == Get(config, "suites", Absent)
    IN  IF allSuites.t # "obj" \/ pcase.suite.t # "str" THEN Absent
        ELSE Get(allSuites, pcase.suite.v, Absent)

\* a lookup of the resolution fails: the suite has no config entry, a key is
\* missing, test_id is missing or has no value, a value looked up has the
\* wrong type, or baseurl is empty
LookupFails ==
    \/ SuiteEntry = Absent
    \/ SuiteEntry.t # "obj"
    \/ Get(SuiteEntry, "baseurl", Absent).t # "str"
    \/ Get(SuiteEntry, "baseurl", Absent).v = ""
    \/ Get(SuiteEntry, "repository", Absent).t # "str"
    \/ Get(config, "repositories", Absent).t # "obj"
    \/ Get(Get(config, "repositories", Absent),
           Get(SuiteEntry, "repository", Absent).v, Absent).t # "str"
    \/ Get(pcase.props, "test_id", Absent).t # "str"

\* C9: case_path_testspec never raises, and returns None whenever a lookup
\* of the resolution fails.
C9_ResolutionNeverRaises ==
    ppc = "done" =>
        /\ resolved.kind # "raise"
        /\ LookupFails => resolved.kind = "none"

-----------------------------------------------------------------------------
(* TestSuite and TestSuites *)

\* a <testsuite> element conforming to the schema: its attributes and its
\* <testcase> children in document order
SuiteElem(name, hostname, tests, errors, failures, testcases) ==
    [name |-> name, hostname |-> hostname, timestamp |-> JStr("T0"),
     time |-> JStr("2.5"), tests |-> tests, errors |-> errors,
     failures |-> failures, skipped |-> 0, testcases |-> testcases]

\* TestSuite._metadata_from_elem(elem)
MetadataFromElem(e) ==
    [tests |-> e.tests, errors |-> e.errors, failures |-> e.failures,
     success |-> e.tests - (e.errors + e.failures), skipped |-> e.skipped,
     hostname |-> e.hostname, timestamp |-> e.timestamp,
     duration |-> IF e.time # NONE THEN Decimal(e.time) ELSE NONE]

\* raise KeyError(f'duplicate ...')
RaiseDuplicate(what) == [kind |-> "raise", exc |-> "KeyError", msg |-> what]

\* case.name in self
HasCase(cases, name) == \E i \in 1..Len(cases) : cases[i].name = name

\* the check and the insertion of TestSuite.__init__
StoreCase(cases, case) ==
    IF HasCase(cases, case.name) THEN RaiseDuplicate("duplicate test case")
    ELSE Return(Append(cases, case))

\* the body of the loop of TestSuite.__init__ once TestCase(elem) has
\* returned or raised `case`
StoreBuilt(cases, case) ==
    IF case.kind = "raise" THEN case ELSE StoreCase(cases, case.val)

RECURSIVE CaseLoop(_, _, _)
\* the loop of TestSuite.__init__ after the body has stored a case or raised
CaseLoopAfter(children, uuid, stored) ==
    IF stored.kind = "raise"
    THEN [kind |-> "raise", exc |-> stored.exc, msg |-> stored.msg, uuid |-> uuid + 1]
    ELSE CaseLoop(Tail(children), stored.val, uuid + 1)

\* the loop over elem.findall('testcase') in TestSuite.__init__, from the
\* cases stored so far on; uuid4() returns `uuid` next
CaseLoop(children, cases, uuid) ==
    IF children = <<>> THEN [kind |-> "return", val |-> cases, uuid |-> uuid]
    ELSE CaseLoopAfter(children, uuid,
                       StoreBuilt(cases, TestCase(Head(children), uuid)))

\* the suite of TestSuite.__init__ once its loop has ended as `loop`
SuiteOf(e, loop) ==
    IF loop.kind = "raise" THEN loop
    ELSE [kind |-> "return", uuid |-> loop.uuid,
          val |-> [name |-> e.name, metadata |-> MetadataFromElem(e),
                   cases |-> loop.val]]

\* TestSuite(elem); uuid4() returns `uuid` next
TestSuite(e, uuid) == SuiteOf(e, CaseLoop(e.testcases, <<>>, uuid))

\* suite.name in self
HasSuite(coll, name) == \E i \in 1..Len(coll) : coll[i].name = name

\* the check and the insertion of TestSuites.include
StoreSuite(coll, suite) ==
    IF HasSuite(coll, suite.name) THEN RaiseDuplicate("duplicate test suite")
    ELSE Return(Append(coll, suite))

\* the body of the loop of TestSuites.include once TestSuite(elem) has
\* returned or raised `suite`
StoreBuiltSuite(coll, suite) ==
    IF suite.kind = "raise" THEN suite ELSE StoreSuite(coll, suite.val)

RECURSIVE SuiteLoop(_, _, _)
\* the loop of TestSuites.include after the body has stored a suite or raised
SuiteLoopAfter(elems, coll, uuid, stored) ==
    IF stored.kind = "raise"
    THEN [coll |-> coll, uuid |-> uuid,
          exc |-> [kind |-> "raise", exc |-> stored.exc, msg |-> stored.msg]]
    ELSE SuiteLoop(Tail(elems), stored.val, uuid)

\* the loop of TestSuites.include once TestSuite(elem) has returned or
\* raised `suite`
SuiteLoopBuilt(elems, coll, suite) ==
    SuiteLoopAfter(elems, coll, suite.uuid, StoreBuiltSuite(coll, suite))

\* the loop over root.findall('testsuite') in TestSuites.include: the
\* collection, the exception raised (NONE when none) and the next uuid
SuiteLoop(elems, coll, uuid) ==
    IF elems = <<>> THEN [coll |-> coll, exc |-> NONE, uuid |-> uuid]
    ELSE SuiteLoopBuilt(elems, coll, TestSuite(Head(elems), uuid))

-----------------------------------------------------------------------------
(* TestSuite(elem) on every element of up to MaxCases cases *)

\* the timing of a case: complete in the attributes, complete in stdout,
\* and a timestamp without duration in stdout
Timings ==
    { <<JStr("T0"), JStr("1.5"), Absent>>,
      <<NONE, NONE, Text(TimingObject(JStr("T"), JStr("5")))>>,
      <<NONE, NONE, Text(TimingObject(JStr("T"), Absent))>> }

SuiteCaseElems ==
    {CaseElem(JStr(name), JStr("s"), timing[1], timing[2], failure, Absent,
              timing[3], <<>>) :
        name \in {"a", "b"}, timing \in Timings, failure \in {Absent, JStr("f")}}

SuiteElemSet ==
    {SuiteElem(JStr("s"), NONE, Len(testcases), 0, 0, testcases) :
        testcases \in UNION {[1..n -> SuiteCaseElems] : n \in 0..MaxCases}}

InitSuite ==
    /\ selem \in SuiteElemSet
    /\ sbuilt = ReturnNone
    /\ spc = "ready"

CallTestSuite ==
    /\ spc = "ready"
    /\ sbuilt' = TestSuite(selem, 1)
    /\ spc' = "done"
    /\ UNCHANGED selem

NextSuite == CallTestSuite

\* two <testcase> children of the element have the same name
HasDuplicateCase ==
    \E i, j \in 1..Len(selem.testcases) :
        i < j /\ selem.testcases[i].name = selem.testcases[j].name

\* C2: TestSuite construction fails with a duplicate error for every element
\* with two <testcase> children of the same name, and for every other
\* element it succeeds and maps each case name to one case, in document order.
C2_DuplicateCaseOrSuite ==
    spc = "done" =>
        IF HasDuplicateCase
        THEN sbuilt.kind = "raise" /\ sbuilt.msg = "duplicate test case"
        ELSE /\ sbuilt.kind = "return"
             /\ Len(sbuilt.val.cases) = Len(selem.testcases)
             /\ \A i \in 1..Len(selem.testcases) :
                    sbuilt.val.cases[i].name = selem.testcases[i].name

-----------------------------------------------------------------------------
(* TestSuites.include over the documents of up to two suites *)

PlainCase(name, classname) ==
    CaseElem(JStr(name), JStr(classname), JStr("T0"), JStr("1.5"), Absent,
             Absent, Absent, <<>>)

\* a case whose stdout has a timestamp and no duration
UntimedCase(name, classname) ==
    CaseElem(JStr(name), JStr(classname), NONE, NONE, Absent, Absent,
             Text(TimingObject(JStr("T"), Absent)), <<>>)

\* the <testcase> children of the suites included
IncludeCases(name) ==
    { <<PlainCase("a", name)>>,
      <<PlainCase("a", name), PlainCase("b", name)>>,
      <<PlainCase("a", name), PlainCase("a", name)>>,
      <<UntimedCase("a", name)>> }

IncludeSuiteElems ==
    UNION {{SuiteElem(JStr(name), NONE, Len(testcases), 0, 0, testcases) :
                testcases \in IncludeCases(name)} : name \in {"s", "t"}}

IncludeDocs ==
    {<<>>} \cup {<<x>> : x \in IncludeSuiteElems}
           \cup {<<x, y>> : x \in IncludeSuiteElems, y \in IncludeSuiteElems}

InitColl ==
    /\ suites = <<>>
    /\ nextUuid = 1
    /\ includes = 0
    /\ raised = NONE
    /\ before = <<>>
    /\ lastDoc = <<>>

\* what the loop of include leaves: the collection, the exception, the uuid
Included(loop) ==
    /\ suites' = loop.coll
    /\ raised' = loop.exc
    /\ nextUuid' = loop.uuid

\* TestSuites.include(filename), `doc` the <testsuite> children of its root
Include(doc) ==
    /\ includes < MaxIncludes
    /\ Included(SuiteLoop(doc, suites, nextUuid))
    /\ includes' = includes + 1
    /\ before' = suites
    /\ lastDoc' = doc

NextInclude == \E doc \in IncludeDocs : Include(doc)

\* the elements of the last document whose name was in the collection or
\* on an earlier element of the document
Repeated ==
    {i \in 1..Len(lastDoc) :
        \/ \E j \in 1..Len(before) : before[j].name = lastDoc[i].name
        \/ \E j \in 1..(i - 1) : lastDoc[j].name = lastDoc[i].name}

\* the last include stored every element before the first repeated one
MetRepeated ==
    /\ Repeated # {}
    /\ \E d \in Repeated :
        /\ \A i \in Repeated : d <= i
        /\ Len(suites) >= Len(before) + d - 1

\* C1: the suite names of the collection are pairwise distinct and kept in
\* first-inclusion order, and an include that meets a <testsuite> whose name
\* is already in the collection fails with a duplicate error and overwrites
\* no suite stored.
C1_DistinctSuitesInOrder ==
    /\ \A i, j \in 1..Len(suites) : i # j => suites[i].name # suites[j].name
    /\ Len(before) <= Len(suites)
    /\ SubSeq(suites, 1, Len(before)) = before
    /\ \A i \in 1..(Len(suites) - Len(before)) :
            suites[Len(before) + i].name = lastDoc[i].name
    /\ MetRepeated =>
            /\ raised # NONE
            /\ raised.msg \in {"duplicate test suite", "duplicate test case"}

-----------------------------------------------------------------------------
(* Rendering *)

NOT_RECORDED == JStr("[.deemphasize]_not recorded_")
EMPTY == JStr("[.deemphasize]#-#")

\* a line that is a fixed text
Ln(s) == [k |-> "text", s |-> s]

\* f'{level} ...', `lvl` the number of '=' of level
Heading(lvl, title) == [k |-> "heading", level |-> lvl, title |-> title]

\* str(c)
Str(c) ==
    CASE c.t = "null" -> JStr("None")
      [] c.t = "bool" -> JStr(IF c.b THEN "True" ELSE "False")
      [] c.t \in {"num", "dec"} -> JStr(c.v)
      [] c.t \in {"list", "obj"} -> [t |-> "repr", of |-> c]
      [] OTHER -> c

\* row(*cells), for two cells
Row(c1, c2) == [k |-> "row", cells |-> <<Str(c1), Str(c2)>>]

\* literal_block(val)
LiteralBlock(val) == [k |-> "literal", val |-> val]

\* x or y
Or(x, y) == IF Truthy(x) THEN x ELSE y

\* TestCase.a_result
AResult(case) ==
    IF case.result = JBool(TRUE) THEN JStr("[.test-success]#success#")
    ELSE IF case.result = JBool(FALSE) THEN JStr("[.test-failure]#failure#")
    ELSE JStr("[.test-error]#error#")

\* TestCase.anchor_result, xref_result, anchor_spec, xref_spec
AnchorResult(case) == [k |-> "anchor", uuid |-> case.uuid, sec |-> "result"]
XrefResult(case) == [t |-> "xref", uuid |-> case.uuid, sec |-> "result"]
AnchorSpec(case) == [k |-> "anchor", uuid |-> case.uuid, sec |-> "spec"]
XrefSpec(case) == [t |-> "xref", uuid |-> case.uuid, sec |-> "spec"]

\* the lines of the testspec.adoc files of the repository
SpecDocument ==
    << <<"x">>, <<"=", " ", "x", " ">>, <<"x", "=">>, <<"=", "=", " ", "x">> >>

RECURSIVE LStripTitle(_)
\* line.lstrip('= ')
LStripTitle(line) ==
    IF line # <<>> /\ Head(line) \in {"=", " "} THEN LStripTitle(Tail(line))
    ELSE line

RECURSIVE RStrip(_)
\* line.rstrip()
RStrip(line) ==
    IF line # <<>> /\ line[Len(line)] = " "
    THEN RStrip(SubSeq(line, 1, Len(line) - 1))
    ELSE line

RECURSIVE FirstTitle(_, _)
\* the loop over the lines of the file in Config.case_title
FirstTitle(content, name) ==
    IF content = <<>> THEN name
    ELSE IF StartsWithMarker(Head(content))
    THEN [t |-> "chars", c |-> RStrip(LStripTitle(Head(content)))]
    ELSE FirstTitle(Tail(content), name)

\* the body of case_title once case_path_testspec has returned or raised
\* `path`
CaseTitleAt(path, case) ==
    IF path.kind = "raise" THEN path
    ELSE IF path.kind = "return" THEN Return(FirstTitle(SpecDocument, case.name))
    ELSE Return(case.name)

\* Config.case_title(case)
CaseTitle(cfg, case, present) ==
    CaseTitleAt(CasePathTestspec(cfg, case, present), case)

\* the keys of the tables in sorted order
KeyOrder == <<"a", "b", "x", "y">>

\* sorted(dct)
Sorted(dct) == SelectSeq(KeyOrder, LAMBDA key : HasKey(dct, key))

\* the state of a pass: the lines yielded, the exception raised (NONE when
\* none), what uuid4() returns next, the files of objdir and of its images
\* directory, the cases the consumer still takes, whether it has stopped
Yield(st, new) == [st EXCEPT !.lines = st.lines \o new]
Fail(st, raising) ==
    [st EXCEPT !.exc = [kind |-> "raise", exc |-> raising.exc, msg |-> raising.msg]]

\* the lines of one image of TestDetail.to_asciidoc
ImageLines(image, uuid) ==
    << Ln(""),
       [k |-> "caption", title |-> Or(image.title, [t |-> "basename", of |-> image.path])],
       [k |-> "image", uuid |-> uuid, ext |-> image.path] >>

RECURSIVE ImagesToAsciidoc(_, _)
\* the loop over self._images in TestDetail.to_asciidoc
ImagesToAsciidoc(st, images) ==
    IF images = <<>> THEN st
    ELSE IF Head(images).path.t # "str"
    THEN Fail([st EXCEPT !.uuid = st.uuid + 1], Raise("TypeError"))
    ELSE ImagesToAsciidoc(
            [Yield(st, ImageLines(Head(images), st.uuid))
                EXCEPT !.uuid = st.uuid + 1,
                       !.images = st.images \cup {st.uuid}],
            Tail(images))

\* the lines of one table of TestDetail.to_asciidoc
TableLines(table) ==
    << Ln(""), [k |-> "caption", title |-> JStr(table.title)],
       Ln("[cols=\"1,4\"]"), Ln("|==="), Ln("") >>
        \o [i \in 1..Len(Sorted(table.dct)) |->
                Row([t |-> "bold", v |-> Sorted(table.dct)[i]],
                    Item(table.dct, Sorted(table.dct)[i]))]
        \o << Ln(""), Ln("|===") >>

RECURSIVE TablesToAsciidoc(_, _)
\* the loop over self._tables in TestDetail.to_asciidoc
TablesToAsciidoc(st, tables) ==
    IF tables = <<>> THEN st
    ELSE TablesToAsciidoc(Yield(st, TableLines(Head(tables))), Tail(tables))

\* the second loop of to_asciidoc, unless the first has raised
TablesAfterImages(imaged, tables) ==
    IF imaged.exc # NONE THEN imaged ELSE TablesToAsciidoc(imaged, tables)

\* TestDetail.to_asciidoc(objdir)
ToAsciidoc(st, dtl) ==
    TablesAfterImages(ImagesToAsciidoc(st, dtl.images), dtl.tables)

\* the lines 368-371 of TestSuite.results, `dtl` what from_output gave
DetailLinesOf(st, case, dtl) ==
    IF dtl.kind = "raise" THEN Fail(st, dtl)
    ELSE IF dtl.kind = "return" THEN ToAsciidoc(st, dtl.val)
    ELSE IF Truthy(case.stdout) THEN Yield(st, <<LiteralBlock(case.stdout)>>)
    ELSE st

\* the lines 367-371 of TestSuite.results: the detail of a case
DetailLines(st, case) == DetailLinesOf(st, case, FromOutput(case.stdout))

\* the table of a case in TestSuite.results
ResultTable(case) ==
    << Ln(""), Ln("[cols=\"1,4\"]"), Ln("|==="), Ln(""),
       Row(JStr("*test specification*"), XrefSpec(case)),
       Row(JStr("*test identifier*"), Or(Get(case.props, "test_id", NONE), NOT_RECORDED)),
       Row(JStr("*timestamp*"), Or(case.timestamp, NOT_RECORDED)),
       Row(JStr("*duration (s)*"),
           IF case.duration = NONE THEN NOT_RECORDED ELSE case.duration),
       Row(JStr("*result*"), AResult(case)),
       Row(JStr("*reason*"), Or(case.reason, EMPTY)),
       Ln("|===") >>

\* the end of the body of the loop of TestSuite.results
ResultsEnd(detailed) ==
    IF detailed.exc # NONE THEN detailed
    ELSE Yield(detailed, <<Ln(""), Ln("<<<")>>)

\* the body of the loop of TestSuite.results from its heading on, `title`
\* what config.case_title(case) returned or raised
ResultsTitled(anchored, case, lvl, title) ==
    IF title.kind = "raise" THEN Fail(anchored, title)
    ELSE ResultsEnd(DetailLines(Yield(anchored, <<Heading(lvl, title.val)>>
                                                    \o ResultTable(case)), case))

\* the body of the loop of TestSuite.results(objdir, config, level)
ResultsCase(st, case, lvl, cfg, present) ==
    ResultsTitled(Yield(st, <<Ln(""), AnchorResult(case)>>), case, lvl,
                  CaseTitle(cfg, case, present))

\* copyfile(path, target) and indent_titles(target, level) in TestSuite.specs
CopySpec(dir, name, content, lvl) ==
    {f \in dir : f.name # name}
        \cup {[name |-> name, content |-> IndentTitles(content, lvl)]}

\* the body of the loop of TestSuite.specs, `path` what
\* config.case_path_testspec(case) returned or raised
SpecsAt(st, case, lvl, path) ==
    IF path.kind = "raise" THEN Fail(st, path)
    ELSE IF path.kind = "return"
    THEN Yield([st EXCEPT !.objdir = CopySpec(st.objdir, case.uuid, SpecDocument, lvl)],
               <<Ln(""), AnchorSpec(case),
                 [k |-> "include", uuid |-> case.uuid], Ln(""), Ln("<<<")>>)
    ELSE Yield(st,
               <<Ln(""), AnchorSpec(case),
                 [k |-> "note", title |-> CaseTitleAt(path, case).val],
                 Ln(""), Ln("<<<")>>)

\* the body of the loop of TestSuite.specs(objdir, config, level)
SpecsCase(st, case, lvl, cfg, present) ==
    SpecsAt(st, case, lvl, CasePathTestspec(cfg, case, present))

\* the row of a case in TestSuite.summary
SummaryCase(st, case) == Yield(st, <<Row(XrefResult(case), AResult(case))>>)

\* the body of the loop over the cases of a suite in the pass `p`
CaseStep(p, st, case, lvl, cfg, present) ==
    CASE p = "summary" -> SummaryCase(st, case)
      [] p = "results" -> ResultsCase(st, case, lvl, cfg, present)
      [] p = "specs" -> SpecsCase(st, case, lvl, cfg, present)

\* an integer of the metadata as a cell
IntCell(n) == [t |-> "int", n |-> n]

\* the lines of TestSuite.summary before the rows of the cases
SummaryHead(suite) ==
    << Ln(""), Ln("[cols=\"1,3\"]"), Ln("|==="), Ln(""),
       Row(JStr("*hostname*"), Or(suite.metadata.hostname, NOT_RECORDED)),
       Row(JStr("*started*"), Or(suite.metadata.timestamp, NOT_RECORDED)),
       Row(JStr("*duration (s)*"), suite.metadata.duration),
       Row(JStr("*test cases*"), IntCell(suite.metadata.tests)),
       Row(JStr("*test error*"), IntCell(suite.metadata.errors)),
       Row(JStr("*test failure*"), IntCell(suite.metadata.failures)),
       Row(JStr("*test success*"), IntCell(suite.metadata.success)),
       Ln(""), Ln("|==="), Ln(""), Ln("[%header,cols=\"5,1\"]"), Ln("|==="),
       Ln("|case|result") >>

\* the lines of a suite before those of its cases, in the pass `p`
SuiteHead(p, suite, lvl) ==
    << Ln(""), Heading(lvl, [t |-> "suite", name |-> suite.name]) >>
        \o (IF p = "summary" THEN SummaryHead(suite) ELSE <<>>)

\* the lines of a suite after those of its cases, in the pass `p`
SuiteTail(p) ==
    (IF p = "summary" THEN <<Ln("|===")>> ELSE <<>>) \o <<Ln(""), Ln("<<<")>>

RECURSIVE CasesFold(_, _, _, _, _, _)
\* the loop over self.values() of a suite, until the consumer stops
CasesFold(p, cases, st, lvl, cfg, present) ==
    IF cases = <<>> \/ st.exc # NONE THEN st
    ELSE IF st.budget = 0 THEN [st EXCEPT !.stopped = TRUE]
    ELSE CasesFold(p, Tail(cases),
            CaseStep(p, [st EXCEPT !.budget = st.budget - 1], Head(cases),
                     lvl, cfg, present),
            lvl, cfg, present)

RECURSIVE SuitesFold(_, _, _, _, _, _)
\* the loop over the suites after the cases of one suite were rendered
SuitesFoldAfter(p, coll, cased, lvl, cfg, present) ==
    IF cased.exc # NONE \/ cased.stopped THEN cased
    ELSE SuitesFold(p, Tail(coll), Yield(cased, SuiteTail(p)), lvl, cfg, present)

\* the loop over self.values() of the collection, until the consumer stops
SuitesFold(p, coll, st, lvl, cfg, present) ==
    IF coll = <<>> \/ st.exc # NONE \/ st.stopped THEN st
    ELSE SuitesFoldAfter(p, coll,
            CasesFold(p, Head(coll).cases, Yield(st, SuiteHead(p, Head(coll), lvl)),
                      lvl + 1, cfg, present),
            lvl, cfg, present)

\* level_suite of main(), as the number of its '='
LevelSuite == 3

\* TestSuites.summary, results or specs, consumed until `stop` cases were
\* rendered or to its end
Pass(p, coll, stop, uuid, dir, imgs, cfg, present) ==
    SuitesFold(p, coll,
               [lines |-> <<>>, exc |-> NONE, uuid |-> uuid, objdir |-> dir,
                images |-> imgs, budget |-> stop, stopped |-> FALSE],
               LevelSuite, cfg, present)

-----------------------------------------------------------------------------
(* main(): the documents are included, then the passes run *)

Passes == {"summary", "results", "specs"}

\* the cases of the documents rendered: a case with a test_id, a failed case
\* with raw text on stdout, a case with images and tables on stdout, a case
\* with a malformed plot on stdout
SpecifiedCase ==
    CaseElem(JStr("a"), JStr("s"), JStr("T0"), JStr("1.5"), Absent, Absent,
             Absent, <<Pair("test_id", JStr("u/c"))>>)
FailedCase ==
    CaseElem(JStr("b"), JStr("s"), NONE, NONE, JStr("f"), Absent,
             Text(Invalid(FALSE)), <<>>)
DetailedCase ==
    CaseElem(JStr("a"), JStr("t"), JStr("T0"), NONE, Absent, NONE,
             Text(DetailObject(JBool(TRUE), NONE,
                    JList(<<JStr("p"),
                            JObj(<<Pair("title", JStr("t")), Pair("path", JStr("p"))>>)>>),
                    JObj(<<Pair("y", JObj(<<Pair("b", JNum("1")), Pair("a", JNum("2"))>>)),
                           Pair("x", JList(<<JStr("1"), JStr("2")>>))>>))),
             <<>>)
MalformedCase ==
    CaseElem(JStr("b"), JStr("t"), JStr("T0"), JStr("1.5"), Absent, Absent,
             Text(DetailObject(JBool(TRUE), NONE, JList(<<JNum("1")>>), Absent)),
             <<>>)

RenderDocs ==
    { <<SuiteElem(JStr("s"), JStr("h"), 2, 0, 1, <<SpecifiedCase, FailedCase>>)>>,
      <<SuiteElem(JStr("t"), NONE, 1, 1, 0, <<DetailedCase>>)>>,
      <<SuiteElem(JStr("t"), NONE, 2, 1, 0, <<DetailedCase, MalformedCase>>)>>,
      <<SuiteElem(JStr("s"), JStr("h"), 1, 0, 0, <<SpecifiedCase>>),
        SuiteElem(JStr("t"), NONE, 1, 1, 0, <<DetailedCase>>)>>,
      <<SuiteElem(JStr("t"), NONE, 1, 0, 0, <<UntimedCase("c", "t")>>)>> }

\* the configs: the base URL of suite s is "u/", or empty
RenderConfigs ==
    {JObj(<<Pair("repositories", JObj(<<Pair("r", JStr("/data"))>>)),
            Pair("suites", JObj(<<Pair("s",
                JObj(<<Pair("repository", JStr("r")), Pair("baseurl", baseurl)>>))>>))>>) :
        baseurl \in {JStr("u/"), JStr("")}}

NoOutput == [lines |-> <<>>, exc |-> NONE]

InitRender ==
    /\ InitColl
    /\ config \in RenderConfigs
    /\ files \in {{}, SpecDirs}
    /\ pcase = NONE /\ resolved = ReturnNone /\ ppc = "idle"
    /\ out = [p \in Passes |-> NoOutput]
    /\ prev = [p \in Passes |-> NoOutput]
    /\ runs = [p \in Passes |-> 0]
    /\ calls = 0
    /\ objdirFiles = {}
    /\ imageFiles = {}
    /\ last = [op |-> "none", stopped |-> FALSE]
    /\ model = <<>>

\* suites.include(input_): main() includes every input before it renders
IncludeInput(doc) ==
    /\ calls = 0
    /\ Include(doc)
    /\ model' = suites'
    /\ last' = [op |-> "include", stopped |-> FALSE]
    /\ UNCHANGED <<config, files, pcase, resolved, ppc, out, prev, runs, calls,
                   objdirFiles, imageFiles>>

\* the number of cases of the collection
RECURSIVE TotalCases(_)
TotalCases(coll) ==
    IF coll = <<>> THEN 0 ELSE Len(Head(coll).cases) + TotalCases(Tail(coll))

\* what a pass leaves when it ends as `r`: its files and, when it was
\* consumed to its end or to the exception it raised, its lines
Ran(p, r) ==
    /\ nextUuid' = r.uuid
    /\ objdirFiles' = r.objdir
    /\ imageFiles' = r.images
    /\ raised' = r.exc
    /\ last' = [op |-> p, stopped |-> r.stopped]
    /\ IF r.stopped
       THEN UNCHANGED <<out, prev, runs>>
       ELSE /\ out' = [out EXCEPT ![p] = [lines |-> r.lines, exc |-> r.exc]]
            /\ prev' = [prev EXCEPT ![p] = out[p]]
            /\ runs' = [runs EXCEPT ![p] = @ + 1]

\* a pass consumed to its end (or to the exception it raises), or dropped
\* by its consumer after PartialCases cases; `after` is the collection it
\* leaves
RunPass(p, partial, after) ==
    /\ calls < MaxCalls
    /\ Ran(p, Pass(p, suites, IF partial THEN PartialCases ELSE TotalCases(suites),
                   nextUuid, objdirFiles, imageFiles, config, files))
    /\ suites' = after
    /\ calls' = calls + 1
    /\ UNCHANGED <<includes, before, lastDoc, model, config, files, pcase,
                   resolved, ppc>>

\* a summary pass that takes the cases out of the suites as it renders them
RunSummaryDraining(partial) ==
    RunPass("summary", partial,
            [i \in 1..Len(suites) |-> [suites[i] EXCEPT !.cases = <<>>]])

\* print(*suites.summary(level_suite), sep='\n')
RunSummary(partial) == RunPass("summary", partial, suites)

\* a results pass that drops the stdout it has rendered
RunResultsClearing(partial) ==
    RunPass("results", partial,
            [i \in 1..Len(suites) |->
                [suites[i] EXCEPT !.cases =
                    [j \in 1..Len(suites[i].cases) |->
                        [suites[i].cases[j] EXCEPT !.stdout = NONE]]]])

\* print(*suites.results(objdir, config, level_suite), sep='\n')
RunResults(partial) == RunPass("results", partial, suites)

\* print(*suites.specs(objdir, config, level_suite), sep='\n')
RunSpecs(partial) == RunPass("specs", partial, suites)

NextPass ==
    \/ \E doc \in RenderDocs : IncludeInput(doc)
    \/ \E partial \in BOOLEAN : RunSummary(partial)
    \/ \E partial \in BOOLEAN : RunResults(partial)
    \/ \E partial \in BOOLEAN : RunSpecs(partial)

-----------------------------------------------------------------------------
(* Claims about the passes *)

\* the lines with the generated file name of every image:: line left out
Masked(lines) ==
    [i \in 1..Len(lines) |->
        IF lines[i].k = "image" THEN [lines[i] EXCEPT !.uuid = 0] ELSE lines[i]]

\* the pass `p` ran to its end at least twice
RanTwice(p) == runs[p] >= 2

\* C3 as stated: the same pass run twice over the same collection, config
\* and output directory produces the same lines both times, also for the
\* cases whose stdout holds images.
C3_SameLinesTwice == \A p \in Passes : RanTwice(p) => out[p] = prev[p]

\* C3: the same pass run twice over the same collection, config and output
\* directory produces the same lines and raises the same exception both
\* times, but for the generated file name in the image:: lines.
C3_SameLinesButImageNames ==
    \A p \in Passes :
        RanTwice(p) =>
            /\ Masked(out[p].lines) = Masked(prev[p].lines)
            /\ out[p].exc = prev[p].exc
            /\ \A i \in 1..Len(out[p].lines) :
                    out[p].lines[i].k = "image" =>
                        out[p].lines[i].uuid # prev[p].lines[i].uuid

\* the results pass ran twice over a case with images
C3_Witness ==
    /\ RanTwice("results")
    /\ out["results"].exc = NONE
    /\ \E i \in 1..Len(out["results"].lines) : out["results"].lines[i].k = "image"

\* what an anchor or a cross-reference names
Target(x) == [uuid |-> x.uuid, sec |-> x.sec]

\* the positions of the anchors in the lines
AnchorPositions(lines) == {i \in 1..Len(lines) : lines[i].k = "anchor"}

\* the positions of the cross-references in the lines: a row and a cell
XrefPositions(lines) ==
    {q \in (1..Len(lines)) \X (1..2) :
        lines[q[1]].k = "row" /\ lines[q[1]].cells[q[2]].t = "xref"}

\* the anchors of the lines that are named `x`
AnchorsNamed(lines, x) ==
    {i \in AnchorPositions(lines) : Target(lines[i]) = x}

\* the cross-references of the lines that point at `x`
XrefsNamed(lines, x) ==
    {q \in XrefPositions(lines) : Target(lines[q[1]].cells[q[2]]) = x}

\* the lines of the three passes, as main() prints them
Document == out["summary"].lines \o out["results"].lines \o out["specs"].lines

\* each anchor is the target of one cross-reference, each cross-reference
\* has one anchor, in the lines
AnchorsMatchXrefs(lines) ==
    /\ \A i \in AnchorPositions(lines) :
            /\ Cardinality(AnchorsNamed(lines, Target(lines[i]))) = 1
            /\ Cardinality(XrefsNamed(lines, Target(lines[i]))) = 1
    /\ \A q \in XrefPositions(lines) :
            /\ Cardinality(XrefsNamed(lines, Target(lines[q[1]].cells[q[2]]))) = 1
            /\ Cardinality(AnchorsNamed(lines, Target(lines[q[1]].cells[q[2]]))) = 1

\* the three passes ran once each, each to its end
RanOnceEach == \A p \in Passes : runs[p] = 1

\* C4: in the lines of the summary, results and specs passes run once each,
\* every anchor has exactly one cross-reference pointing at it and every
\* cross-reference points at exactly one anchor.
C4_AnchorsAndXrefs == RanOnceEach => AnchorsMatchXrefs(Document)

\* the lines and the exception of the pass over the collection as parsed
Rendered(p) ==
    Pass(p, model, TotalCases(model), nextUuid, {}, {}, config, files)

\* C10: after any passes, run to the end or in part and in any order, the
\* collection with its suites and cases is as the parsing left it, and the
\* lines of a pass are those of the pass run on the collection as parsed.
C10_PassesLeaveModel ==
    /\ calls > 0 => suites = model
    /\ \A p \in Passes :
        runs[p] > 0 =>
            /\ Masked(out[p].lines) = Masked(Rendered(p).lines)
            /\ out[p].exc = Rendered(p).exc

\* the results and the specs pass ran to the end, then the consumer of a
\* pass stopped before its end
C10_Witness ==
    /\ suites # <<>>
    /\ runs["results"] > 0
    /\ runs["specs"] > 0
    /\ last.stopped

-----------------------------------------------------------------------------
(* Specifications: one per operation, each leaving the others idle *)

IdleIndent == file = <<>> /\ orig = <<>> /\ level = 0 /\ ipc = "idle"
IdleDetail == output = NONE /\ detail = ReturnNone /\ dpc = "idle"
IdleCase == elem = NONE /\ built = ReturnNone /\ cpc = "idle"
IdlePath ==
    /\ config = NONE /\ pcase = NONE /\ files = {}
    /\ resolved = ReturnNone /\ ppc = "idle"
IdleSuite == selem = NONE /\ sbuilt = ReturnNone /\ spc = "idle"
IdlePass ==
    /\ out = <<>> /\ prev = <<>> /\ runs = <<>> /\ calls = 0
    /\ objdirFiles = {} /\ imageFiles = {} /\ last = NONE /\ model = <<>>

IndentInit ==
    InitIndent /\ IdleDetail /\ IdleCase /\ IdlePath /\ IdleSuite /\ InitColl /\ IdlePass
IndentNext ==
    /\ NextIndent
    /\ UNCHANGED <<detailVars, caseVars, pathVars, suiteVars, collVars, passVars>>
SpecIndent == IndentInit /\ [][IndentNext]_vars

DetailInit ==
    InitDetail /\ IdleIndent /\ IdleCase /\ IdlePath /\ IdleSuite /\ InitColl /\ IdlePass
DetailNext ==
    /\ NextDetail
    /\ UNCHANGED <<indentVars, caseVars, pathVars, suiteVars, collVars, passVars>>
SpecDetail == DetailInit /\ [][DetailNext]_vars

CaseInit ==
    InitCase /\ IdleIndent /\ IdleDetail /\ IdlePath /\ IdleSuite /\ InitColl /\ IdlePass
CaseNext ==
    /\ NextCase
    /\ UNCHANGED <<indentVars, detailVars, pathVars, suiteVars, collVars, passVars>>
SpecCase == CaseInit /\ [][CaseNext]_vars

PathInit ==
    InitPath /\ IdleIndent /\ IdleDetail /\ IdleCase /\ IdleSuite /\ InitColl /\ IdlePass
PathNext ==
    /\ NextPath
    /\ UNCHANGED <<indentVars, detailVars, caseVars, suiteVars, collVars, passVars>>
SpecPath == PathInit /\ [][PathNext]_vars

SuiteInit ==
    InitSuite /\ IdleIndent /\ IdleDetail /\ IdleCase /\ IdlePath /\ InitColl /\ IdlePass
SuiteNext ==
    /\ NextSuite
    /\ UNCHANGED <<indentVars, detailVars, caseVars, pathVars, collVars, passVars>>
SpecSuite == SuiteInit /\ [][SuiteNext]_vars

IncludeInit ==
    InitColl /\ IdlePass /\ IdleIndent /\ IdleDetail /\ IdleCase /\ IdlePath /\ IdleSuite
IncludeNext ==
    /\ NextInclude
    /\ UNCHANGED <<indentVars, detailVars, caseVars, pathVars, suiteVars, passVars>>
SpecInclude == IncludeInit /\ [][IncludeNext]_vars

Init == InitRender /\ IdleIndent /\ IdleDetail /\ IdleCase /\ IdleSuite
Next ==
    /\ NextPass
    /\ UNCHANGED <<indentVars, detailVars, caseVars, suiteVars>>
Spec == Init /\ [][Next]_vars

====
